---- MODULE Spec2Model ----
(***************************************************************************)
(* State-machine model of the Rocket.Chat standup bot (src/src/index.js).  *)
(*                                                                         *)
(* The bot keeps its durable state in two SQLite tables (standups,         *)
(* responses) and does all its work in callbacks of asynchronous database  *)
(* statements.  The database handle is used in its default mode, in which  *)
(* statements that have been issued are executed in no guaranteed order,   *)
(* so the model keeps the issued statements in a bag and lets any of them  *)
(* execute next.  One action executes one statement together with the      *)
(* callback the code attaches to it.                                       *)
(***************************************************************************)
EXTENDS Naturals, Sequences, FiniteSets, Bags, TLC

(***************************************************************************)
(* Bounds of the model.                                                    *)
(***************************************************************************)
MaxEvents == 4        \* events the environment delivers: scheduler firings,
                      \* inbound direct messages, restarts, midnights
MaxInFlight == 2      \* a scheduler firing, an inbound message, a rollup timer
                      \* or a midnight comes in only while fewer statements
                      \* than this are in flight

(***************************************************************************)
(* Configuration (read once from the environment).                         *)
(***************************************************************************)
VALID_STANDUP_MEMBERS == <<"alice", "bob">>

QUESTIONS_ARRAY == <<"Q1", "Q2">>

Members == {VALID_STANDUP_MEMBERS[i] : i \in DOMAIN VALID_STANDUP_MEMBERS}

(***************************************************************************)
(* Message texts are sequences of characters.                              *)
(***************************************************************************)
Whitespace == {" ", "\n", "\t"}

LowerChar(c) ==
    CASE c = "S" -> "s"
      [] c = "K" -> "k"
      [] c = "I" -> "i"
      [] c = "P" -> "p"
      [] c = "O" -> "o"
      [] OTHER -> c

toLowerCase(text) == [i \in DOMAIN text |-> LowerChar(text[i])]

RECURSIVE trimStart(_)
trimStart(text) ==
    IF text # <<>> /\ Head(text) \in Whitespace THEN trimStart(Tail(text)) ELSE text

RECURSIVE trimEnd(_)
trimEnd(text) ==
    IF text # <<>> /\ text[Len(text)] \in Whitespace
    THEN trimEnd(SubSeq(text, 1, Len(text) - 1))
    ELSE text

trim(text) == trimEnd(trimStart(text))

\* The test without the trim(): text.toLowerCase() === 'skip'
IsSkipCommandUntrimmed(text) == toLowerCase(text) = <<"s", "k", "i", "p">>

\* text.toLowerCase().trim() === 'skip'
IsSkipCommand(text) == trim(toLowerCase(text)) = <<"s", "k", "i", "p">>

(***************************************************************************)
(* The answers column holds the JSON text of the array of answers.  The    *)
(* model keeps the array structure and encodes each answer as JSON encodes *)
(* a string: quote, backslash and control characters are escaped.          *)
(***************************************************************************)
escape(c) ==
    CASE c = "\"" -> <<"\\", "\"">>
      [] c = "\\" -> <<"\\", "\\">>
      [] c = "\n" -> <<"\\", "n">>
      [] c = "\t" -> <<"\\", "t">>
      [] OTHER -> <<c>>

RECURSIVE quote(_)
quote(text) == IF text = <<>> THEN <<>> ELSE escape(Head(text)) \o quote(Tail(text))

unescape(c) ==
    CASE c = "n" -> "\n"
      [] c = "t" -> "\t"
      [] OTHER -> c

RECURSIVE unquote(_)
unquote(json) ==
    IF json = <<>> THEN <<>>
    ELSE IF Head(json) = "\\"
         THEN <<unescape(json[2])>> \o unquote(Tail(Tail(json)))
         ELSE <<Head(json)>> \o unquote(Tail(json))

JSONstringify(array) == [k \in DOMAIN array |-> quote(array[k])]

JSONparse(json) == [k \in DOMAIN json |-> unquote(json[k])]

\* The texts the participants send in the model: one skip command, one answer.
InboundTexts == { <<" ", "S", "k", "i", "p">>, <<"O", "k">> }

(***************************************************************************)
(* State.                                                                  *)
(*   standups   the standups table: standups[id] is the row's standup_date *)
(*   responses  the responses table: responses[id] is the row with that id *)
(*   statements the database statements issued and not yet executed        *)
(*   timers     the armed setTimeout(publishStandupSummary) timers, each   *)
(*              tagged with the session whose fan-out armed it             *)
(*   today      the current calendar date                                  *)
(*   inbound    history: the direct messages received, in arrival order    *)
(*   recordLog  history, per responses row: what was sent about it         *)
(*   sessionLog history, per standups row: rollup firings and posts        *)
(*   events     the number of environment events so far                    *)
(*   process    whether the bot's process is running or has exited         *)
(***************************************************************************)
VARIABLES standups, responses, statements, timers, today,
          inbound, recordLog, sessionLog, events, process

vars == <<standups, responses, statements, timers, today,
          inbound, recordLog, sessionLog, events, process>>

NoRecord == 0

\* A statement in flight.  Every statement carries the same fields; those a
\* kind of statement does not use hold a neutral value.
Statement(op, user, date, id, answers, src, msg) ==
    [op |-> op, user |-> user, date |-> date, id |-> id,
     answers |-> answers, src |-> src, msg |-> msg]

Issue(bag, s) == bag (+) SetToBag({s})

Complete(bag, s) == bag (-) SetToBag({s})

Init ==
    /\ standups = <<>>
    /\ responses = <<>>
    /\ statements = EmptyBag
    /\ timers = EmptyBag
    /\ today = 1
    /\ inbound = <<>>
    /\ recordLog = <<>>
    /\ sessionLog = <<>>
    /\ events = 0
    /\ process = "running"

(***************************************************************************)
(* Store queries.                                                          *)
(***************************************************************************)

\* The lookup with ORDER BY id ASC: the oldest pending record.
getOldestPendingRecord(user) ==
    LET ids == {i \in DOMAIN responses :
                   responses[i].user_id = user /\ responses[i].status = "pending"}
    IN IF ids = {} THEN NoRecord ELSE CHOOSE i \in ids : \A j \in ids : i <= j

\* SELECT * FROM responses WHERE user_id = ? AND status = "pending"
\* ORDER BY id DESC LIMIT 1
getActivePendingRecord(user) ==
    LET ids == {i \in DOMAIN responses :
                   responses[i].user_id = user /\ responses[i].status = "pending"}
    IN IF ids = {} THEN NoRecord ELSE CHOOSE i \in ids : \A j \in ids : j <= i

\* A standups table whose standup_date column is not declared UNIQUE.
NoUniqueConstraint(date) == FALSE

\* standup_date TEXT NOT NULL UNIQUE: an INSERT of a date already present fails.
UniqueConstraintFails(date) == \E i \in DOMAIN standups : standups[i] = date

\* SELECT id FROM standups WHERE standup_date = ?
selectStandupId(date) ==
    IF \E i \in DOMAIN standups : standups[i] = date
    THEN CHOOSE i \in DOMAIN standups : standups[i] = date
    ELSE NoRecord

\* The rows of publishStandupSummary's query: today's records that are
\* pending or skipped.
nonRespondents(date) ==
    {i \in DOMAIN responses :
        /\ standups[responses[i].standup_id] = date
        /\ responses[i].status \in {"pending", "skipped"}}

(***************************************************************************)
(* The statements the code issues.                                         *)
(***************************************************************************)
InsertStandup(date) == Statement("insertStandup", "", date, NoRecord, <<>>, <<>>, 0)

SelectStandup(date) == Statement("selectStandup", "", date, NoRecord, <<>>, <<>>, 0)

\* The date is not part of the INSERT: it records, for the properties, the
\* date of the invocation that issued it.
InsertResponse(standupId, user, date) ==
    Statement("insertResponse", user, date, standupId, <<>>, <<>>, 0)

AskSelect(user) == Statement("askSelect", user, 0, NoRecord, <<>>, <<>>, 0)

UpdateAnswered(id, user, answers) ==
    Statement("updateAnswered", user, 0, id, answers, <<>>, 0)

ReplySelect(user, msg) == Statement("replySelect", user, 0, NoRecord, <<>>, <<>>, msg)

UpdateSkipped(id, user, msg) == Statement("updateSkipped", user, 0, id, <<>>, <<>>, msg)

UpdateAnswers(id, user, answers, src, msg) ==
    Statement("updateAnswers", user, 0, id, answers, src, msg)

Pending(op) == {s \in BagToSet(statements) : s.op = op}

\* prompt(standupId): one INSERT per member is issued, then the rollup timer
\* is armed, all in the same turn of the event loop.
promptStatements(standupId, date) ==
    SetToBag({InsertResponse(standupId, m, date) : m \in Members})

NewRecordLog == [asked |-> <<>>, summaries |-> 0, notices |-> 0, lines |-> 0,
                 label |-> "", src |-> <<>>, applied |-> 0, failed |-> 0]

NewSessionLog == [fired |-> 0, posted |-> 0]

(***************************************************************************)
(* Session orchestration.                                                  *)
(***************************************************************************)

\* The scheduler invokes promptUsersForStandup: the INSERT of today's session
\* is issued.
promptUsersForStandup ==
    /\ process = "running"
    /\ events < MaxEvents
    /\ BagCardinality(statements) < MaxInFlight
    /\ events' = events + 1
    /\ statements' = Issue(statements, InsertStandup(today))
    /\ UNCHANGED <<standups, responses, timers, today, inbound, recordLog,
                   sessionLog, process>>

\* The INSERT INTO standups executes and its callback runs.
ExecInsertStandup ==
    \E s \in Pending("insertStandup") :
        IF UniqueConstraintFails(s.date)
        THEN /\ statements' = Issue(Complete(statements, s), SelectStandup(s.date))
             /\ UNCHANGED <<standups, responses, timers, today, inbound,
                            recordLog, sessionLog, events, process>>
        ELSE LET lastID == Len(standups) + 1 IN
             /\ standups' = Append(standups, s.date)
             /\ sessionLog' = Append(sessionLog, NewSessionLog)
             /\ statements' = Complete(statements, s) (+) promptStatements(lastID, s.date)
             /\ timers' = Issue(timers, lastID)
             /\ UNCHANGED <<responses, today, inbound, recordLog, events, process>>

\* getStandupAndPrompt without an id: the SELECT executes and its callback runs.
ExecSelectStandup ==
    \E s \in Pending("selectStandup") :
        LET id == selectStandupId(s.date) IN
        IF id = NoRecord
        THEN /\ statements' = Complete(statements, s)
             /\ UNCHANGED <<standups, responses, timers, today, inbound,
                            recordLog, sessionLog, events, process>>
        ELSE /\ statements' = Complete(statements, s) (+) promptStatements(id, s.date)
             /\ timers' = Issue(timers, id)
             /\ UNCHANGED <<standups, responses, today, inbound, recordLog,
                            sessionLog, events, process>>

\* The INSERT INTO responses of one member executes; its callback calls
\* askNextQuestion.
ExecInsertResponse ==
    \E s \in Pending("insertResponse") :
        /\ responses' = Append(responses,
               [standup_id |-> s.id, user_id |-> s.user,
                questions |-> QUESTIONS_ARRAY, answers |-> <<>>,
                status |-> "pending"])
        /\ recordLog' = Append(recordLog, NewRecordLog)
        /\ statements' = Issue(Complete(statements, s), AskSelect(s.user))
        /\ UNCHANGED <<standups, timers, today, inbound, sessionLog, events, process>>

(***************************************************************************)
(* Conversation engine.                                                    *)
(***************************************************************************)

\* askNextQuestion: the SELECT executes and its callback runs.
ExecAskSelect ==
    \E s \in Pending("askSelect") :
        LET id == getActivePendingRecord(s.user) IN
        IF id = NoRecord
        THEN /\ statements' = Complete(statements, s)
             /\ UNCHANGED <<standups, responses, timers, today, inbound,
                            recordLog, sessionLog, events, process>>
        ELSE LET userResponse == responses[id]
                 answers == JSONparse(userResponse.answers)
                 currentQuestionIndex == Len(answers)
             IN
             IF currentQuestionIndex < Len(userResponse.questions)
             THEN /\ recordLog' = [recordLog EXCEPT ![id].asked =
                                       Append(@, currentQuestionIndex)]
                  /\ statements' = Complete(statements, s)
                  /\ UNCHANGED <<standups, responses, timers, today, inbound,
                                 sessionLog, events, process>>
             ELSE /\ statements' = Issue(Complete(statements, s),
                                         UpdateAnswered(id, s.user, userResponse.answers))
                  /\ UNCHANGED <<standups, responses, timers, today, inbound,
                                 recordLog, sessionLog, events, process>>

\* UPDATE responses SET status = "answered" WHERE id = ? executes; its
\* callback publishes the individual summary.
ExecUpdateAnswered ==
    \E s \in Pending("updateAnswered") :
        /\ responses' = [responses EXCEPT ![s.id].status = "answered"]
        /\ recordLog' = [recordLog EXCEPT ![s.id].summaries = @ + 1]
        /\ statements' = Complete(statements, s)
        /\ UNCHANGED <<standups, timers, today, inbound, sessionLog, events, process>>

\* A direct message arrives that passes the listener's filter (a new message
\* of another user in a direct-message room): processStandupResponse issues
\* its SELECT.
ReceiveMessage ==
    \E user \in Members, text \in InboundTexts :
        /\ process = "running"
        /\ events < MaxEvents
        /\ BagCardinality(statements) < MaxInFlight
        /\ events' = events + 1
        /\ inbound' = Append(inbound, [user |-> user, text |-> text,
                                       state |-> "received", id |-> NoRecord,
                                       saw |-> <<>>, inReplyTo |-> NoRecord])
        /\ statements' = Issue(statements, ReplySelect(user, Len(inbound) + 1))
        /\ UNCHANGED <<standups, responses, timers, today, recordLog, sessionLog, process>>

\* The messages a participant has sent.
MessagesOf(user) == {m \in DOMAIN inbound : inbound[m].user = user}

\* A participant replies to a question: the k-th message of a participant
\* arrives when the k-th question of the participant's active record has
\* been sent.  inReplyTo records that record, for the properties.
ReceiveReply ==
    \E user \in Members, text \in InboundTexts :
        LET id == getActivePendingRecord(user) IN
        /\ process = "running"
        /\ id # NoRecord
        /\ \E k \in DOMAIN recordLog[id].asked :
               recordLog[id].asked[k] = Cardinality(MessagesOf(user))
        /\ events < MaxEvents
        /\ BagCardinality(statements) < MaxInFlight
        /\ events' = events + 1
        /\ inbound' = Append(inbound, [user |-> user, text |-> text,
                                       state |-> "received", id |-> NoRecord,
                                       saw |-> <<>>, inReplyTo |-> id])
        /\ statements' = Issue(statements, ReplySelect(user, Len(inbound) + 1))
        /\ UNCHANGED <<standups, responses, timers, today, recordLog, sessionLog, process>>

\* processStandupResponse: the SELECT executes and its callback runs.
ExecReplySelect ==
    \E s \in Pending("replySelect") :
        LET id == getActivePendingRecord(s.user)
            text == inbound[s.msg].text
            answers == JSONparse(responses[id].answers)
            newAnswers == JSONstringify(Append(answers, text))
        IN
        IF id = NoRecord
        THEN /\ inbound' = [inbound EXCEPT ![s.msg].state = "ignored"]
             /\ statements' = Complete(statements, s)
             /\ UNCHANGED <<standups, responses, timers, today, recordLog,
                            sessionLog, events, process>>
        ELSE /\ inbound' = [inbound EXCEPT ![s.msg].state = "accepted",
                                           ![s.msg].id = id,
                                           ![s.msg].saw = recordLog[id].src]
             /\ statements' =
                    IF IsSkipCommand(text)
                    THEN Issue(Complete(statements, s), UpdateSkipped(id, s.user, s.msg))
                    ELSE Issue(Complete(statements, s),
                               UpdateAnswers(id, s.user, newAnswers,
                                             Append(recordLog[id].src, s.msg), s.msg))
             /\ UNCHANGED <<standups, responses, timers, today, recordLog,
                            sessionLog, events, process>>

\* UPDATE responses SET status = "skipped" WHERE id = ? executes; its callback
\* acknowledges the skip and posts the notice to the summary channel.
ExecUpdateSkipped ==
    \E s \in Pending("updateSkipped") :
        /\ responses' = [responses EXCEPT ![s.id].status = "skipped"]
        /\ recordLog' = [recordLog EXCEPT ![s.id].notices = @ + 1]
        /\ inbound' = [inbound EXCEPT ![s.msg].state = "skipped"]
        /\ statements' = Complete(statements, s)
        /\ UNCHANGED <<standups, timers, today, sessionLog, events, process>>

\* UPDATE responses SET answers = ? WHERE id = ? executes; its callback calls
\* askNextQuestion.
ExecUpdateAnswers ==
    \E s \in Pending("updateAnswers") :
        /\ responses' = [responses EXCEPT ![s.id].answers = s.answers]
        /\ recordLog' = [recordLog EXCEPT ![s.id].src = s.src,
                                          ![s.id].applied = @ + 1]
        /\ inbound' = [inbound EXCEPT ![s.msg].state = "stored"]
        /\ statements' = Issue(Complete(statements, s), AskSelect(s.user))
        /\ UNCHANGED <<standups, timers, today, sessionLog, events, process>>

(***************************************************************************)
(* Summary publisher.                                                      *)
(***************************************************************************)

\* The line of the rollup for a row of the query.
rollupLine(status) ==
    IF status = "skipped" THEN "Skipped the standup." ELSE "Did not respond."

\* A rollup that closes the pending records it lists.
publishStandupSummaryClosing ==
    /\ BagCardinality(statements) < MaxInFlight
    /\ \E armedBy \in BagToSet(timers) :
           LET rows == nonRespondents(today)
               fired == [sessionLog EXCEPT ![armedBy].fired = @ + 1]
           IN
           /\ timers' = Complete(timers, armedBy)
           /\ responses' = [i \in DOMAIN responses |->
                                IF i \in rows
                                THEN [responses[i] EXCEPT !.status = "skipped"]
                                ELSE responses[i]]
           /\ IF rows = {}
              THEN /\ sessionLog' = fired
                   /\ UNCHANGED recordLog
              ELSE /\ sessionLog' =
                          [fired EXCEPT ![selectStandupId(today)].posted = @ + 1]
                   /\ recordLog' = [i \in DOMAIN recordLog |->
                                       IF i \in rows
                                       THEN [recordLog[i] EXCEPT
                                                !.lines = @ + 1,
                                                !.label = rollupLine(responses[i].status)]
                                       ELSE recordLog[i]]
    /\ UNCHANGED <<standups, statements, today, inbound, events, process>>

\* A rollup timer fires: publishStandupSummary queries the records of the
\* date at firing time and posts one message when there are any.
publishStandupSummary ==
    /\ BagCardinality(statements) < MaxInFlight
    /\ \E armedBy \in BagToSet(timers) :
           LET rows == nonRespondents(today)
               fired == [sessionLog EXCEPT ![armedBy].fired = @ + 1]
           IN
           /\ timers' = Complete(timers, armedBy)
           /\ IF rows = {}
              THEN /\ sessionLog' = fired
                   /\ UNCHANGED recordLog
              ELSE /\ sessionLog' =
                          [fired EXCEPT ![selectStandupId(today)].posted = @ + 1]
                   /\ recordLog' = [i \in DOMAIN recordLog |->
                                       IF i \in rows
                                       THEN [recordLog[i] EXCEPT
                                                !.lines = @ + 1,
                                                !.label = rollupLine(responses[i].status)]
                                       ELSE recordLog[i]]
    /\ UNCHANGED <<standups, responses, statements, today, inbound, events, process>>

(***************************************************************************)
(* Environment.                                                            *)
(***************************************************************************)

\* The process is restarted: the tables survive, the statements in flight
\* and the timers do not.
Restart ==
    /\ events < MaxEvents
    /\ events' = events + 1
    /\ statements' = EmptyBag
    /\ timers' = EmptyBag
    /\ process' = "running"
    /\ UNCHANGED <<standups, responses, today, inbound, recordLog, sessionLog>>

\* Midnight passes.
NextDay ==
    /\ events < MaxEvents
    /\ BagCardinality(statements) < MaxInFlight
    /\ events' = events + 1
    /\ today' = today + 1
    /\ UNCHANGED <<standups, responses, statements, timers, inbound, recordLog,
                   sessionLog, process>>

\* The steps of a process that keeps running and whose participants send
\* nothing but replies to the questions they were sent.
NextReplies ==
    \/ promptUsersForStandup
    \/ ExecInsertStandup
    \/ ExecSelectStandup
    \/ ExecInsertResponse
    \/ ExecAskSelect
    \/ ExecUpdateAnswered
    \/ ReceiveReply
    \/ ExecReplySelect
    \/ ExecUpdateSkipped
    \/ ExecUpdateAnswers
    \/ publishStandupSummary
    \/ NextDay

Next ==
    \/ promptUsersForStandup
    \/ ExecInsertStandup
    \/ ExecSelectStandup
    \/ ExecInsertResponse
    \/ ExecAskSelect
    \/ ExecUpdateAnswered
    \/ ReceiveMessage
    \/ ExecReplySelect
    \/ ExecUpdateSkipped
    \/ ExecUpdateAnswers
    \/ publishStandupSummary
    \/ Restart
    \/ NextDay

Spec == Init /\ [][Next]_vars

SpecReplies == Init /\ [][NextReplies]_vars

(***************************************************************************)
(* Failing sends.  A handler runs as above up to a send that the           *)
(* transport rejects.  Each failure counts as an event of the environment. *)
(***************************************************************************)

\* askNextQuestion, the question's sendDirectMessage fails: the error is
\* caught and logged inside sendDirectMessage, the question is not sent.
AskSendFails ==
    \E s \in Pending("askSelect") :
        LET id == getActivePendingRecord(s.user) IN
        /\ id # NoRecord
        /\ Len(JSONparse(responses[id].answers)) < Len(responses[id].questions)
        /\ events < MaxEvents
        /\ events' = events + 1
        /\ statements' = Complete(statements, s)
        /\ UNCHANGED <<standups, responses, timers, today, inbound, recordLog,
                       sessionLog, process>>

\* The UPDATE to 'answered' executes and publishIndividualSummary's post
\* fails: the error is caught and logged, no summary is published.
SummaryPostFails ==
    \E s \in Pending("updateAnswered") :
        /\ events < MaxEvents
        /\ events' = events + 1
        /\ responses' = [responses EXCEPT ![s.id].status = "answered"]
        /\ statements' = Complete(statements, s)
        /\ UNCHANGED <<standups, timers, today, inbound, recordLog, sessionLog,
                       process>>

\* The UPDATE to 'skipped' executes and the notice's driver.sendToRoomId
\* fails: the promise is neither awaited nor caught, and the rejection,
\* which nothing handles, ends the process (Node.js 20); what it held in
\* memory, the statements in flight and the timers, is gone.
SkipNoticeFails ==
    \E s \in Pending("updateSkipped") :
        /\ events < MaxEvents
        /\ events' = events + 1
        /\ responses' = [responses EXCEPT ![s.id].status = "skipped"]
        /\ inbound' = [inbound EXCEPT ![s.msg].state = "skipped"]
        /\ statements' = EmptyBag
        /\ timers' = EmptyBag
        /\ process' = "exited"
        /\ UNCHANGED <<standups, today, recordLog, sessionLog>>

\* A rollup timer fires, the query returns rows and the post fails: the
\* error is caught and logged, nothing is published.
RollupPostFails ==
    /\ events < MaxEvents
    /\ BagCardinality(statements) < MaxInFlight
    /\ nonRespondents(today) # {}
    /\ \E armedBy \in BagToSet(timers) :
           /\ timers' = Complete(timers, armedBy)
           /\ sessionLog' = [sessionLog EXCEPT ![armedBy].fired = @ + 1]
    /\ events' = events + 1
    /\ UNCHANGED <<standups, responses, statements, today, inbound, recordLog,
                   process>>

NextTransport ==
    \/ promptUsersForStandup
    \/ ExecInsertStandup
    \/ ExecSelectStandup
    \/ ExecInsertResponse
    \/ ExecAskSelect
    \/ ExecUpdateAnswered
    \/ ReceiveMessage
    \/ ExecReplySelect
    \/ ExecUpdateSkipped
    \/ ExecUpdateAnswers
    \/ publishStandupSummary
    \/ Restart
    \/ NextDay
    \/ AskSendFails
    \/ SummaryPostFails
    \/ SkipNoticeFails
    \/ RollupPostFails

SpecTransport == Init /\ [][NextTransport]_vars

(***************************************************************************)
(* Failing writes.  The UPDATE of a statement in flight fails and its      *)
(* callback runs with the error.  Each failure counts as an event of the   *)
(* environment; recordLog[id].failed counts the failed writes of a record. *)
(***************************************************************************)

\* A callback that, given the error, goes on to askNextQuestion all the same.
UpdateAnswersFailsOnward ==
    \E s \in Pending("updateAnswers") :
        /\ events < MaxEvents
        /\ events' = events + 1
        /\ recordLog' = [recordLog EXCEPT ![s.id].failed = @ + 1]
        /\ inbound' = [inbound EXCEPT ![s.msg].state = "failed"]
        /\ statements' = Issue(Complete(statements, s), AskSelect(s.user))
        /\ UNCHANGED <<standups, responses, timers, today, sessionLog, process>>

\* UPDATE responses SET answers = ? fails: the callback logs the error and
\* returns.
UpdateAnswersFails ==
    \E s \in Pending("updateAnswers") :
        /\ events < MaxEvents
        /\ events' = events + 1
        /\ recordLog' = [recordLog EXCEPT ![s.id].failed = @ + 1]
        /\ inbound' = [inbound EXCEPT ![s.msg].state = "failed"]
        /\ statements' = Complete(statements, s)
        /\ UNCHANGED <<standups, responses, timers, today, sessionLog, process>>

\* UPDATE responses SET status = "skipped" fails: the callback logs the
\* error and returns.
UpdateSkippedFails ==
    \E s \in Pending("updateSkipped") :
        /\ events < MaxEvents
        /\ events' = events + 1
        /\ recordLog' = [recordLog EXCEPT ![s.id].failed = @ + 1]
        /\ inbound' = [inbound EXCEPT ![s.msg].state = "failed"]
        /\ statements' = Complete(statements, s)
        /\ UNCHANGED <<standups, responses, timers, today, sessionLog, process>>

\* UPDATE responses SET status = "answered" fails: the callback logs the
\* error and returns.
UpdateAnsweredFails ==
    \E s \in Pending("updateAnswered") :
        /\ events < MaxEvents
        /\ events' = events + 1
        /\ recordLog' = [recordLog EXCEPT ![s.id].failed = @ + 1]
        /\ statements' = Complete(statements, s)
        /\ UNCHANGED <<standups, responses, timers, today, inbound, sessionLog,
                       process>>

NextStore ==
    \/ promptUsersForStandup
    \/ ExecInsertStandup
    \/ ExecSelectStandup
    \/ ExecInsertResponse
    \/ ExecAskSelect
    \/ ExecUpdateAnswered
    \/ ReceiveMessage
    \/ ExecReplySelect
    \/ ExecUpdateSkipped
    \/ ExecUpdateAnswers
    \/ publishStandupSummary
    \/ Restart
    \/ NextDay
    \/ UpdateAnswersFails
    \/ UpdateSkippedFails
    \/ UpdateAnsweredFails

SpecStore == Init /\ [][NextStore]_vars

(***************************************************************************)
(* Vocabulary of the properties.                                           *)
(***************************************************************************)
Terminal == {"answered", "skipped"}

Range(seq) == {seq[i] : i \in DOMAIN seq}

RECURSIVE SumOver(_, _)
SumOver(ids, count) ==
    IF ids = {} THEN 0
    ELSE LET i == CHOOSE x \in ids : TRUE
         IN count[i] + SumOver(ids \ {i}, count)

\* The records of one participant in one session.
RecordsOf(standupId, user) ==
    {i \in DOMAIN responses :
        responses[i].standup_id = standupId /\ responses[i].user_id = user}

\* What has been published to the summary channel about one record.
Reports(i) == recordLog[i].summaries + recordLog[i].notices + recordLog[i].lines

\* How often the first question, with its banner, was sent for one record.
Banners(i) == Cardinality({k \in DOMAIN recordLog[i].asked : recordLog[i].asked[k] = 0})

TimerArmedBy(standupId) == BagIn(standupId, timers)

(***************************************************************************)
(* C1: once a record's status is 'answered' or 'skipped' it never changes  *)
(* again, in any step of any interleaving.                                 *)
(***************************************************************************)
C1_TerminalStatusIsFinal ==
    [][\A i \in DOMAIN responses :
          responses[i].status \in Terminal =>
              responses'[i].status = responses[i].status]_vars

(***************************************************************************)
(* C2: a record never holds more answers than questions, and an 'answered' *)
(* record holds exactly as many answers as questions.                      *)
(***************************************************************************)
C2_AnswersWithinQuestions ==
    \A i \in DOMAIN responses :
        /\ Len(responses[i].answers) <= Len(responses[i].questions)
        /\ responses[i].status = "answered" =>
               Len(responses[i].answers) = Len(responses[i].questions)

(***************************************************************************)
(* C3: the individual summary of a record is published at most once, and   *)
(* not while the record is still pending.                                  *)
(***************************************************************************)
C3_SummaryPublishedOnce ==
    \A i \in DOMAIN responses :
        /\ recordLog[i].summaries <= 1
        /\ recordLog[i].summaries > 0 => responses[i].status # "pending"

(***************************************************************************)
(* C4: after k accepted non-skip replies have been fully processed for a   *)
(* record, the record holds k answers.                                     *)
(***************************************************************************)
C4_OneAnswerPerReply ==
    \A i \in DOMAIN responses :
        Len(responses[i].answers) = recordLog[i].applied

(***************************************************************************)
(* C5: the replies of one participant are applied in arrival order: the    *)
(* answers of a record are stored in the order their messages arrived, and *)
(* when two replies were both recorded in a record, the lookup of the      *)
(* later one saw the answer of the earlier one.                            *)
(***************************************************************************)
C5_RepliesInArrivalOrder ==
    /\ \A i \in DOMAIN recordLog :
           \A a, b \in DOMAIN recordLog[i].src :
               a < b => recordLog[i].src[a] < recordLog[i].src[b]
    /\ \A m1, m2 \in DOMAIN inbound :
           ( /\ m1 < m2
             /\ inbound[m1].user = inbound[m2].user
             /\ inbound[m1].state = "stored"
             /\ inbound[m2].state = "stored"
             /\ inbound[m1].id = inbound[m2].id )
           => m1 \in Range(inbound[m2].saw)

(***************************************************************************)
(* C6: for every session and every participant with a record in it, at    *)
(* most one report about the participant is ever published, and exactly    *)
(* one has been published once the session's rollup timer is gone and       *)
(* nothing is in flight any more.                                          *)
(***************************************************************************)
C6_ExactlyOneReport ==
    \A i \in DOMAIN responses :
        LET mine == RecordsOf(responses[i].standup_id, responses[i].user_id)
            published == SumOver(mine, [r \in mine |-> Reports(r)])
        IN /\ published <= 1
           /\ (statements = EmptyBag /\ ~TimerArmedBy(responses[i].standup_id))
                  => published = 1

(***************************************************************************)
(* C7: the rollup of a session fires, and is published, at most once, also *)
(* when the scheduled entry point runs again for the same date.            *)
(***************************************************************************)
C7_RollupOncePerSession ==
    \A id \in DOMAIN standups :
        /\ sessionLog[id].fired <= 1
        /\ sessionLog[id].posted <= 1

(***************************************************************************)
(* C8: there is at most one response record per (session, participant).    *)
(***************************************************************************)
C8_OneRecordPerPair ==
    \A i, j \in DOMAIN responses :
        ( /\ responses[i].standup_id = responses[j].standup_id
          /\ responses[i].user_id = responses[j].user_id )
        => i = j

(***************************************************************************)
(* C9: running the entry point again on a date that has its session is a   *)
(* no-op for the conversation: no participant is sent the first question   *)
(* of the session a second time, and all the replies a participant gives    *)
(* in the session are applied to one and the same record.                  *)
(***************************************************************************)
C9_SecondRunIsNoOp ==
    /\ \A i \in DOMAIN responses :
           LET mine == RecordsOf(responses[i].standup_id, responses[i].user_id)
           IN SumOver(mine, [r \in mine |-> Banners(r)]) <= 1
    /\ \A m1, m2 \in DOMAIN inbound :
           ( /\ inbound[m1].user = inbound[m2].user
             /\ inbound[m1].id # NoRecord
             /\ inbound[m2].id # NoRecord
             /\ responses[inbound[m1].id].standup_id
                    = responses[inbound[m2].id].standup_id )
           => inbound[m1].id = inbound[m2].id

(***************************************************************************)
(* C10: session creation is get-or-create keyed by date: there is at most  *)
(* one session per calendar date, and every fan-out issued by an           *)
(* invocation proceeds with the id of the one session of the invocation's  *)
(* date, whether the invocation created the session or found it.           *)
(***************************************************************************)
C10_SessionGetOrCreate ==
    /\ \A i, j \in DOMAIN standups : standups[i] = standups[j] => i = j
    /\ \A s \in Pending("insertResponse") :
           /\ s.id \in DOMAIN standups
           /\ standups[s.id] = s.date

\* C10, witness: two invocations for the same date have both proceeded to
\* the fan-out with the same session, the second one through the failed
\* INSERT and the SELECT.
C10_TwoAttemptsOneSession ==
    /\ \E id \in DOMAIN standups : CopiesIn(id, timers) >= 2
    /\ Len(standups) = 1

\* The records a participant holds, over all sessions.
RecordsOfUser(user) == {i \in DOMAIN responses : responses[i].user_id = user}

\* The rollup lines published about one participant in one session, in a
\* given record log.
LinesOf(log, standupId, user) ==
    LET mine == RecordsOf(standupId, user)
    IN SumOver(mine, [r \in mine |-> log[r].lines])

(***************************************************************************)
(* C11: a participant whose record has reached 'answered' (all questions   *)
(* answered, individual summary published) keeps that status and is not    *)
(* named in a rollup from then on, whatever is received afterwards.        *)
(***************************************************************************)
C11_AnsweredStaysOutOfRollup ==
    [][\A i \in DOMAIN responses :
          recordLog[i].summaries >= 1 =>
              /\ responses'[i].status = "answered"
              /\ recordLog'[i].lines = recordLog[i].lines]_vars

(***************************************************************************)
(* C12: when the rollup armed by a session fires, every participant who    *)
(* was sent the first question of the session and has sent no message has  *)
(* been named in the rollups of the session exactly once.                  *)
(***************************************************************************)
C12_SilentParticipantListedOnce ==
    [][\A id \in DOMAIN standups :
          sessionLog'[id].fired > sessionLog[id].fired =>
              \A user \in Members :
                  ( /\ \E i \in RecordsOf(id, user) : Banners(i) >= 1
                    /\ \A m \in DOMAIN inbound : inbound[m].user # user )
                  => LinesOf(recordLog', id, user) = 1]_vars

(***************************************************************************)
(* C13: once the most recent record of a participant is 'skipped', it      *)
(* keeps that status, and no question is sent to the participant for any   *)
(* record, until a fan-out creates a new record for the participant.       *)
(***************************************************************************)
C13_SkipEndsTheConversation ==
    [][\A i \in DOMAIN responses :
          ( /\ responses[i].status = "skipped"
            /\ \A j \in RecordsOfUser(responses[i].user_id) : j <= i )
          => /\ responses'[i].status = "skipped"
             /\ \A j \in RecordsOfUser(responses[i].user_id) :
                    recordLog'[j].asked = recordLog[j].asked]_vars

\* The rollup messages posted so far, in a given session log.
PostedIn(log) == SumOver(DOMAIN log, [id \in DOMAIN log |-> log[id].posted])

(***************************************************************************)
(* C14: when the rollup armed by a session fires, it lists exactly the     *)
(* records of that session that are pending or skipped at that time, each  *)
(* on one line that says so, in one message; when there is no such record  *)
(* it posts nothing.                                                       *)
(***************************************************************************)
C14_RollupListsItsSession ==
    [][\A id \in DOMAIN standups :
          sessionLog'[id].fired > sessionLog[id].fired =>
              LET expected == {i \in DOMAIN responses :
                                  /\ responses[i].standup_id = id
                                  /\ responses[i].status \in {"pending", "skipped"}}
                  listed == {i \in DOMAIN recordLog :
                                recordLog'[i].lines > recordLog[i].lines}
              IN /\ listed = expected
                 /\ \A i \in listed :
                        /\ recordLog'[i].lines = recordLog[i].lines + 1
                        /\ recordLog'[i].label =
                               IF responses[i].status = "skipped"
                               THEN "Skipped the standup."
                               ELSE "Did not respond."
                 /\ PostedIn(sessionLog') =
                        PostedIn(sessionLog) + IF expected = {} THEN 0 ELSE 1]_vars

\* The position of a member in the directory.
memberIndex(user) ==
    CHOOSE k \in DOMAIN VALID_STANDUP_MEMBERS : VALID_STANDUP_MEMBERS[k] = user

(***************************************************************************)
(* C15: the fan-out is sequential in directory order: the prompt of a      *)
(* participant is under way (its INSERT has been issued) only when every   *)
(* participant earlier in the directory has a record in the session and    *)
(* has been sent its first question.                                       *)
(***************************************************************************)
C15_FanOutIsSequential ==
    \A s \in Pending("insertResponse") :
        \A k \in DOMAIN VALID_STANDUP_MEMBERS :
            k < memberIndex(s.user) =>
                \E i \in RecordsOf(s.id, VALID_STANDUP_MEMBERS[k]) : Banners(i) >= 1

(***************************************************************************)
(* C19: the rollup timer of a session is armed only when the fan-out has   *)
(* finished: every participant has a record in the session and has been    *)
(* sent its first question.                                                *)
(***************************************************************************)
C19_TimerArmedAfterFanOut ==
    \A id \in DOMAIN standups :
        TimerArmedBy(id) =>
            \A user \in Members : \E i \in RecordsOf(id, user) : Banners(i) >= 1

(***************************************************************************)
(* The reply handler under a richer set of message texts.                  *)
(***************************************************************************)
PlainSkip == <<"s", "k", "i", "p">>

PaddedSkip == <<" ", "S", "K", "i", "P", "\n">>

SkippingToday == <<"s", "k", "i", "p", "p", "i", "n", "g", " ", "t", "o", "d", "a", "y">>

SplitSkip == <<"s", " ", "k", "i", "p">>

PaddedAnswer == <<" ", "O", "k", " ">>

QuotedAnswer == <<"\"", "O", "\\", "k", "\n">>

RichTexts == {PlainSkip, PaddedSkip, SkippingToday, SplitSkip, PaddedAnswer,
              QuotedAnswer}

\* A direct message with any of the texts arrives.
ReceiveText ==
    \E user \in Members, text \in RichTexts :
        /\ process = "running"
        /\ events < MaxEvents
        /\ BagCardinality(statements) < MaxInFlight
        /\ events' = events + 1
        /\ inbound' = Append(inbound, [user |-> user, text |-> text,
                                       state |-> "received", id |-> NoRecord,
                                       saw |-> <<>>, inReplyTo |-> NoRecord])
        /\ statements' = Issue(statements, ReplySelect(user, Len(inbound) + 1))
        /\ UNCHANGED <<standups, responses, timers, today, recordLog, sessionLog, process>>

\* The fan-out and the conversation, without rollup, restart and midnight.
NextTexts ==
    \/ promptUsersForStandup
    \/ ExecInsertStandup
    \/ ExecSelectStandup
    \/ ExecInsertResponse
    \/ ExecAskSelect
    \/ ExecUpdateAnswered
    \/ ReceiveText
    \/ ExecReplySelect
    \/ ExecUpdateSkipped
    \/ ExecUpdateAnswers

SpecTexts == Init /\ [][NextTexts]_vars

\* The text is the word skip in any mix of cases, with nothing but whitespace
\* before and after it.
SkipWord(text) ==
    \E a \in 0..Len(text) :
        /\ a + 4 <= Len(text)
        /\ \A k \in 1..a : text[k] \in Whitespace
        /\ text[a + 1] \in {"s", "S"}
        /\ text[a + 2] \in {"k", "K"}
        /\ text[a + 3] \in {"i", "I"}
        /\ text[a + 4] \in {"p", "P"}
        /\ \A k \in (a + 5)..Len(text) : text[k] \in Whitespace

(***************************************************************************)
(* C16: a reply that finds a pending record takes the skip path exactly    *)
(* when its text, trimmed and lower-cased, is 'skip'; any other text       *)
(* takes the answer path and is stored as it was sent, untrimmed and in    *)
(* its own case.                                                           *)
(***************************************************************************)
C16_SkipIffTrimmedLowerSkip ==
    /\ \A m \in DOMAIN inbound :
           inbound[m].id # NoRecord =>
               LET skipPath == \/ inbound[m].state = "skipped"
                               \/ \E s \in Pending("updateSkipped") : s.msg = m
                   answerPath == \/ inbound[m].state = "stored"
                                 \/ \E s \in Pending("updateAnswers") : s.msg = m
               IN /\ skipPath <=> SkipWord(inbound[m].text)
                  /\ answerPath <=> ~SkipWord(inbound[m].text)
    /\ \A s \in Pending("updateAnswers") :
           LET answers == JSONparse(s.answers)
           IN answers[Len(answers)] = inbound[s.msg].text
    /\ \A i \in DOMAIN responses :
           \A k \in DOMAIN recordLog[i].src :
               JSONparse(responses[i].answers)[k] = inbound[recordLog[i].src[k]].text

\* C16, witness: one participant's 'skipping today' is stored as an answer,
\* letter for letter, and the padded, mixed-case skip of another has skipped
\* that participant's record.
C16_BothPathsTaken ==
    \E m1, m2 \in DOMAIN inbound :
        /\ inbound[m1].text = SkippingToday
        /\ inbound[m1].state = "stored"
        /\ JSONparse(responses[inbound[m1].id].answers) = <<SkippingToday>>
        /\ inbound[m2].text = PaddedSkip
        /\ inbound[m2].state = "skipped"
        /\ responses[inbound[m2].id].status = "skipped"

C18_SequentialRepliesComplete ==
    \A i \in DOMAIN responses :
        LET mine == MessagesOf(responses[i].user_id)
        IN ( /\ statements = EmptyBag
             /\ Cardinality(mine) = Len(responses[i].questions)
             /\ \A m \in mine :
                    /\ ~IsSkipCommand(inbound[m].text)
                    /\ inbound[m].inReplyTo = i )
           => /\ responses[i].status = "answered"
              /\ recordLog[i].summaries >= 1

(***************************************************************************)
(* C20: a failed send is absorbed: no step ends the process.  (The only    *)
(* steps that differ from the handlers' normal course in this              *)
(* specification are sends that fail.)                                     *)
(***************************************************************************)
C20_FailedSendIsAbsorbed ==
    [][process = "running" => process' = "running"]_vars

(***************************************************************************)
(* C21: a step in which a write of a record fails changes no record,       *)
(* sends nothing about the record (no question, no skip notice, no         *)
(* individual summary), issues no further statement and leaves the process *)
(* running.                                                                *)
(***************************************************************************)
C21_FailedWriteAbortsOnlyItself ==
    [][\A i \in DOMAIN recordLog :
          recordLog'[i].failed > recordLog[i].failed =>
              /\ responses' = responses
              /\ \A j \in DOMAIN recordLog :
                     /\ recordLog'[j].asked = recordLog[j].asked
                     /\ recordLog'[j].notices = recordLog[j].notices
                     /\ recordLog'[j].summaries = recordLog[j].summaries
              /\ BagCardinality(statements') = BagCardinality(statements) - 1
              /\ \A s \in BagToSet(statements') : BagIn(s, statements)
              /\ timers' = timers
              /\ process' = "running"]_vars

\* C21, witness: the write of a participant's reply failed, the record kept
\* its committed state, and a later reply of the participant was stored in
\* the same record.
C21_LaterReplyStored ==
    \E m, n \in DOMAIN inbound :
        /\ m < n
        /\ inbound[m].user = inbound[n].user
        /\ inbound[m].state = "failed"
        /\ inbound[n].state = "stored"
        /\ inbound[n].id = inbound[m].id
        /\ recordLog[inbound[m].id].failed = 1
        /\ recordLog[inbound[m].id].src = <<n>>
        /\ process = "running"

(***************************************************************************)
(* C22: the step in which a rollup fires changes no response record, and   *)
(* a reply of a participant who holds a pending record that a rollup has   *)
(* listed is accepted like any other.                                      *)
(***************************************************************************)
C22_RollupChangesNoRecord ==
    [][/\ (\E id \in DOMAIN standups : sessionLog'[id].fired > sessionLog[id].fired)
           => responses' = responses
       /\ \A m \in DOMAIN inbound :
              ( /\ inbound[m].state = "received"
                /\ inbound'[m].state # "received"
                /\ \E i \in RecordsOfUser(inbound[m].user) :
                       /\ responses[i].status = "pending"
                       /\ recordLog[i].lines >= 1 )
              => inbound'[m].state = "accepted"]_vars

\* C22, witness: a record that a rollup listed as 'did not respond' has
\* since been answered in full and its individual summary published.
C22_AnsweredAfterRollup ==
    \E i \in DOMAIN responses :
        /\ recordLog[i].lines = 1
        /\ recordLog[i].label = "Did not respond."
        /\ responses[i].status = "answered"
        /\ Len(responses[i].answers) = Len(responses[i].questions)
        /\ recordLog[i].summaries = 1

====
